---- MODULE Spec2Model ----
(***************************************************************************)
(* A model of open_meteo.py: get_weather_data_df (the fused fetch and      *)
(* reshape of one location) and get_weather_data_multiple_locations (the   *)
(* sequential driver over a mapping of locations).                         *)
(*                                                                         *)
(* Conventions.  Every scalar (a JSON number or string, a cell of the      *)
(* DataFrame) is a string; Python's None is the string None below.  A      *)
(* Python list index i (0-based) is the position i+1 here.  An unordered   *)
(* dict is a function; a dict whose iteration order the code relies on is  *)
(* a sequence of <<key, value>> pairs.  A query parameter value is a       *)
(* record [list, items]: list is isinstance(value, list), items its        *)
(* elements (one element for a scalar).                                    *)
(***************************************************************************)
EXTENDS Integers, Sequences, FiniteSets, TLC

VARIABLES
    pc,         \* position inside get_weather_data_df ("none": no call is active)
    call,       \* the arguments the active call was made with
    params,     \* the local dict params (line 21 rewrites it)
    reply,      \* what the server answers to the call's GET
    data,       \* response.json() (line 25)
    df,         \* the DataFrame under construction (lines 47-62)
    outcome,    \* what get_weather_data_df gave its caller: a table or an error
    fs,         \* the files written so far: filename -> lines
    requests,   \* the GET requests transmitted so far, in order
    dpc,        \* position inside get_weather_data_multiple_locations
    dcall,      \* the arguments the driver was called with
    idx,        \* the driver's position in locations.items()
    all_dfs,    \* the driver's local list all_dfs
    dresult     \* what the driver gave its caller

vars == <<pc, call, params, reply, data, df, outcome, fs, requests,
          dpc, dcall, idx, all_dfs, dresult>>

fetchVars == <<pc, call, params, reply, data, df, outcome>>
driverVars == <<dpc, dcall, idx, all_dfs, dresult>>

\* ------------------------------------------------------------------ bounds

\* The longest array of a series in a response.
MaxLen == 2
\* The largest number of entries of a locations mapping.
MaxLocs == 2

\* ------------------------------------------------------- Python values

None == "<None>"

\* bool(x) for x a string or None
Truthy(x) == x # None /\ x # ""

EmptyDict == [k \in {} |-> None]

\* d.get(k, default)
DictGet(d, k, default) == IF k \in DOMAIN d THEN d[k] ELSE default

Str(s) == [list |-> FALSE, items |-> <<s>>]
List(ss) == [list |-> TRUE, items |-> ss]

\* the value of a scalar parameter
ScalarOf(v) == v.items[1]

\* sep.join(items)
RECURSIVE Join(_, _)
Join(sep, items) ==
    IF items = <<>> THEN ""
    ELSE IF Len(items) = 1 THEN items[1]
    ELSE items[1] \o sep \o Join(sep, Tail(items))

\* s.startswith(prefix)
StartsWith(s, prefix) ==
    Len(s) >= Len(prefix) /\ SubSeq(s, 1, Len(prefix)) = prefix

\* ------------------------------------------------------- ordered dicts

OKeys(od) == [j \in 1..Len(od) |-> od[j][1]]

OHas(od, k) == \E j \in 1..Len(od) : od[j][1] = k

\* od.get(k, default)
OGet(od, k, default) ==
    IF OHas(od, k) THEN od[CHOOSE j \in 1..Len(od) : od[j][1] = k][2] ELSE default

\* od[k] = v: an existing key keeps its place, a new key goes last
OSet(od, k, v) ==
    IF OHas(od, k)
    THEN [j \in 1..Len(od) |-> IF od[j][1] = k THEN <<k, v>> ELSE od[j]]
    ELSE Append(od, <<k, v>>)

\* ------------------------------------------------------------ exceptions

HTTPError == [type |-> "HTTPError", msg |-> "bad status"]
IndexError == [type |-> "IndexError", msg |-> "list index out of range"]
\* KeyErrorFor with the default data key written into the message
KeyErrorHourly(data_key) ==
    [type |-> "KeyError", msg |-> "'hourly' not found in the response"]
KeyErrorFor(data_key) ==
    [type |-> "KeyError", msg |-> "'" \o data_key \o "' not found in the response"]
ValueErrorFor(column) ==
    [type |-> "ValueError", msg |-> "cannot insert " \o column \o ", already exists"]
TypeErrorFor(name) ==
    [type |-> "TypeError", msg |-> "got multiple values for keyword argument '" \o name \o "'"]

NoOutcome == [kind |-> "none"]
Table(t) == [kind |-> "table", df |-> t]
Error(e) == [kind |-> "error", error |-> e]

\* JoinHourly with ", " for the separator
JoinHourlySpaced(p) ==
    IF "hourly" \in DOMAIN p /\ p["hourly"].list
    THEN [p EXCEPT !["hourly"] = Str(Join(", ", p["hourly"].items))]
    ELSE p

\* ------------------------------------------------------------ lines 20-21

JoinHourly(p) ==
    IF "hourly" \in DOMAIN p /\ p["hourly"].list
    THEN [p EXCEPT !["hourly"] = Str(Join(",", p["hourly"].items))]
    ELSE p

\* ------------------------------------------------------------ lines 34-45

TimeColName(timezone) ==
    IF Truthy(timezone) THEN "time (" \o timezone \o ")" ELSE "time"

ColumnLabel(key, units) ==
    LET unit == DictGet(units, key, "")
    IN  IF Truthy(unit) THEN key \o " (" \o unit \o ")" ELSE key

\* RowFails with the lengths validated against the "time" array
RowFailsOnMismatch(weather_data, i) ==
    \E j \in 1..Len(weather_data) :
        /\ weather_data[j][1] # "time"
        /\ Len(weather_data[j][2]) # Len(OGet(weather_data, "time", <<>>))

\* weather_data[key][i] is out of range for some key the row reads
RowFails(weather_data, i) ==
    \E j \in 1..Len(weather_data) :
        weather_data[j][1] # "time" /\ i > Len(weather_data[j][2])

\* lines 40-44 from the j-th key of weather_data on
RECURSIVE RowFill(_, _, _, _, _)
RowFill(row, weather_data, units, i, j) ==
    IF j > Len(weather_data) THEN row
    ELSE LET key == weather_data[j][1]
         IN  IF key = "time"
             THEN RowFill(row, weather_data, units, i, j + 1)
             ELSE RowFill(OSet(row, ColumnLabel(key, units), weather_data[j][2][i]),
                          weather_data, units, i, j + 1)

\* BuildRow reading every series at its first element
BuildRowFromFirst(weather_data, units, time_col_name, timestamps, i) ==
    RowFill(<< <<time_col_name, timestamps[i]>> >>, weather_data, units, 1, 1)

BuildRow(weather_data, units, time_col_name, timestamps, i) ==
    RowFill(<< <<time_col_name, timestamps[i]>> >>, weather_data, units, i, 1)

BuildRows(weather_data, units, time_col_name, timestamps) ==
    [i \in 1..Len(timestamps) |->
        BuildRow(weather_data, units, time_col_name, timestamps, i)]

\* ------------------------------------------------------------ DataFrame
\* A DataFrame is [index, columns, cols]: the number of rows, the column
\* labels in order, and each label's cells.

\* pd.DataFrame(rows), every row having the keys of the first in its order
DataFrame(rows) ==
    LET columns == IF rows = <<>> THEN <<>> ELSE OKeys(rows[1])
        labels == {columns[j] : j \in 1..Len(columns)}
    IN  [index |-> Len(rows),
         columns |-> columns,
         cols |-> [c \in labels |-> [i \in 1..Len(rows) |-> OGet(rows[i], c, None)]]]

HasColumn(t, column) == \E j \in 1..Len(t.columns) : t.columns[j] = column

\* df.insert(loc, column, series), loc 0-based
InsertSeries(t, loc, column, series) ==
    [index |-> t.index,
     columns |-> SubSeq(t.columns, 1, loc) \o <<column>>
                 \o SubSeq(t.columns, loc + 1, Len(t.columns)),
     cols |-> (column :> series) @@ t.cols]

\* df.insert(loc, column, value) with a scalar: the value in every row
InsertScalar(t, loc, column, value) ==
    InsertSeries(t, loc, column, [i \in 1..t.index |-> value])

\* df.pop(column): the frame without the column
Dropped(t, column) ==
    LET IsOther(c) == c # column
    IN  [index |-> t.index,
         columns |-> SelectSeq(t.columns, IsOther),
         cols |-> [c \in DOMAIN t.cols \ {column} |-> t.cols[c]]]

\* MetaValue preferring the request's parameter to the response's field
MetaValueFromRequest(d, p, field) ==
    IF field \in DOMAIN p THEN ScalarOf(p[field]) ELSE DictGet(d, field, None)

\* lines 49-51
MetaValue(d, p, field) ==
    DictGet(d, field, IF field \in DOMAIN p THEN ScalarOf(p[field]) ELSE None)

\* line 57: the columns whose label starts with "time"
TimeColumns(t) ==
    LET IsTime(c) == StartsWith(c, "time")
    IN  SelectSeq(t.columns, IsTime)

\* MoveTimeColumn with the time column put before elevation
MoveTimeColumnBeforeElevation(t, time_col) ==
    InsertSeries(Dropped(t, time_col), 2, time_col, t.cols[time_col])

\* lines 58-59
MoveTimeColumn(t, time_col) ==
    InsertSeries(Dropped(t, time_col), 3, time_col, t.cols[time_col])

\* ShouldExport without the test of the filename
ShouldExportAnyName(export, filename) == export

\* line 64
ShouldExport(export, filename) == export /\ Truthy(filename)

\* df.to_csv(filename, index=False): a header line, then a line per row; a
\* missing value is written as the empty string
CsvCell(v) == IF v = None THEN "" ELSE v

ToCsv(t) ==
    <<Join(",", t.columns)>> \o
    [i \in 1..t.index |->
        Join(",", [j \in 1..Len(t.columns) |-> CsvCell(t.cols[t.columns[j]][i])])]

\* ------------------------------------------------------------ call frames

\* Unwind with the exception swallowed and the loop going on
UnwindSwallowed(e) == [dpc |-> "loop", dresult |-> NoOutcome]

\* The driver's frame once an exception e leaves the call of line 87: the
\* loop has no handler, so the exception leaves the driver too.
Unwind(e) == [dpc |-> "raised", dresult |-> Error(e)]

\* raise e inside get_weather_data_df
Raise(e) ==
    /\ pc' = "raised"
    /\ outcome' = Error(e)
    /\ IF dpc = "loop"
       THEN /\ dpc' = Unwind(e).dpc
            /\ dresult' = Unwind(e).dresult
       ELSE UNCHANGED <<dpc, dresult>>
    /\ UNCHANGED <<dcall, idx, all_dfs>>

\* ------------------------------------------------- get_weather_data_df

\* lines 20-21
SerializeParams ==
    /\ pc = "L20"
    /\ params' = JoinHourly(params)
    /\ pc' = "L23"
    /\ UNCHANGED <<call, reply, data, df, outcome, fs, requests, driverVars>>

\* lines 23-25
Request ==
    /\ pc = "L23"
    /\ requests' = Append(requests, [params |-> params, reply |-> reply])
    /\ IF reply.ok
       THEN /\ data' = reply.data
            /\ pc' = "L27"
            /\ UNCHANGED <<outcome, driverVars>>
       ELSE /\ Raise(HTTPError)
            /\ UNCHANGED data
    /\ UNCHANGED <<call, params, reply, df, fs>>

\* lines 27-28
CheckKey ==
    /\ pc = "L27"
    /\ IF call.data_key \notin DOMAIN data
       THEN Raise(KeyErrorFor(call.data_key))
       ELSE /\ pc' = "L30"
            /\ UNCHANGED <<outcome, driverVars>>
    /\ UNCHANGED <<call, params, reply, data, df, fs, requests>>

\* lines 30-47
Reshape ==
    /\ pc = "L30"
    /\ LET weather_data == data[call.data_key]
           units == DictGet(data, call.data_key \o "_units", EmptyDict)
           timezone == DictGet(data, "timezone", "UTC")
           time_col_name == TimeColName(timezone)
           timestamps == OGet(weather_data, "time", <<>>)
       IN  IF \E i \in 1..Len(timestamps) : RowFails(weather_data, i)
           THEN /\ Raise(IndexError)
                /\ UNCHANGED df
           ELSE /\ df' = DataFrame(BuildRows(weather_data, units, time_col_name, timestamps))
                /\ pc' = "L49"
                /\ UNCHANGED <<outcome, driverVars>>
    /\ UNCHANGED <<call, params, reply, data, fs, requests>>

\* lines 49-55
InsertMeta ==
    /\ pc = "L49"
    /\ LET lat == MetaValue(data, params, "latitude")
           lon == MetaValue(data, params, "longitude")
           ele == MetaValue(data, params, "elevation")
           clash == {c \in {"latitude", "longitude", "elevation"} : HasColumn(df, c)}
       IN  IF clash # {}
           THEN /\ Raise(ValueErrorFor(CHOOSE c \in clash : TRUE))
                /\ UNCHANGED df
           ELSE /\ df' = InsertScalar(InsertScalar(InsertScalar(df, 0, "latitude", lat),
                                                   1, "longitude", lon),
                                      2, "elevation", ele)
                /\ pc' = "L57"
                /\ UNCHANGED <<outcome, driverVars>>
    /\ UNCHANGED <<call, params, reply, data, fs, requests>>

\* lines 57-59
MoveTime ==
    /\ pc = "L57"
    /\ IF TimeColumns(df) = <<>>
       THEN /\ Raise(IndexError)
            /\ UNCHANGED df
       ELSE /\ df' = MoveTimeColumn(df, TimeColumns(df)[1])
            /\ pc' = "L61"
            /\ UNCHANGED <<outcome, driverVars>>
    /\ UNCHANGED <<call, params, reply, data, fs, requests>>

\* lines 61-62
InsertLocation ==
    /\ pc = "L61"
    /\ IF Truthy(call.location_name) /\ HasColumn(df, "location")
       THEN /\ Raise(ValueErrorFor("location"))
            /\ UNCHANGED df
       ELSE /\ df' = IF Truthy(call.location_name)
                     THEN InsertScalar(df, 0, "location", call.location_name)
                     ELSE df
            /\ pc' = "L64"
            /\ UNCHANGED <<outcome, driverVars>>
    /\ UNCHANGED <<call, params, reply, data, fs, requests>>

\* lines 64-65
Export ==
    /\ pc = "L64"
    /\ fs' = IF ShouldExport(call.export, call.filename)
             THEN (call.filename :> ToCsv(df)) @@ fs
             ELSE fs
    /\ pc' = "L67"
    /\ UNCHANGED <<call, params, reply, data, df, outcome, requests, driverVars>>

\* line 67
Return ==
    /\ pc = "L67"
    /\ outcome' = Table(df)
    /\ pc' = "returned"
    /\ UNCHANGED <<call, params, reply, data, df, fs, requests, driverVars>>

\* ------------------------------------- get_weather_data_multiple_locations

\* the keyword arguments line 87 names itself, plus the positional base_url
PassedByDriver ==
    {"base_url", "data_key", "export", "latitude", "longitude", "location_name"}

\* BindCall with latitude and longitude exchanged
BindCallSwapped(d, loc) ==
    [data_key |-> d.data_key,
     export |-> FALSE,
     filename |-> IF "filename" \in DOMAIN d.params
                  THEN ScalarOf(d.params["filename"]) ELSE None,
     location_name |-> loc.name,
     params |-> ("latitude" :> Str(loc.lon)) @@ ("longitude" :> Str(loc.lat))
                @@ [k \in DOMAIN d.params \ {"filename"} |-> d.params[k]]]

\* lines 87-95: the arguments get_weather_data_df receives for one location;
\* a shared keyword named filename binds to the filename argument, every
\* other one lands in **params
BindCall(d, loc) ==
    [data_key |-> d.data_key,
     export |-> FALSE,
     filename |-> IF "filename" \in DOMAIN d.params
                  THEN ScalarOf(d.params["filename"]) ELSE None,
     location_name |-> loc.name,
     params |-> ("latitude" :> Str(loc.lat)) @@ ("longitude" :> Str(loc.lon))
                @@ [k \in DOMAIN d.params \ {"filename"} |-> d.params[k]]]

\* ------------------------------------------------------------ the inputs

SeriesKeys == {"time", "temperature_2m", "precipitation"}

\* the i-th element of the series of a key
Val(key, i) ==
    IF key = "time" THEN "2024-01-01T0" \o ToString(i - 1) \o ":00"
    ELSE IF key = "temperature_2m" THEN "5." \o ToString(i)
    ELSE "0." \o ToString(i)

Arr(key, n) == [i \in 1..n |-> Val(key, i)]

\* the orders in which a response can list some of the keys
KeyOrders ==
    {o \in UNION {[1..n -> SeriesKeys] : n \in 0..Cardinality(SeriesKeys)} :
        \A a, b \in 1..Len(o) : a # b => o[a] # o[b]}

\* every series dict: some keys in some order, each array of some length
AllSeries ==
    UNION {{[j \in 1..Len(o) |-> <<o[j], Arr(o[j], lens[j])>>] :
                lens \in [1..Len(o) -> 0..MaxLen]} : o \in KeyOrders}

\* the series of a well-formed response: time first, every array full
FullSeries ==
    << <<"time", Arr("time", MaxLen)>>,
       <<"temperature_2m", Arr("temperature_2m", MaxLen)>>,
       <<"precipitation", Arr("precipitation", MaxLen)>> >>

\* a series whose precipitation array is one short
ShortSeries ==
    << <<"temperature_2m", Arr("temperature_2m", MaxLen)>>,
       <<"time", Arr("time", MaxLen)>>,
       <<"precipitation", Arr("precipitation", MaxLen - 1)>> >>

OneRowSeries ==
    << <<"time", Arr("time", 1)>>, <<"temperature_2m", Arr("temperature_2m", 1)>> >>

\* the units dict of a response: none, or one of two
UnitsChoices ==
    {{}, {[temperature_2m |-> "C"]}, {[temperature_2m |-> "", precipitation |-> "mm"]}}

\* the timezone of a response: omitted, null, empty or a zone
TimezoneChoices == {{}, {None}, {""}, {"Asia/Kolkata"}}

MetaFields == {"latitude", "longitude", "elevation"}

RespMeta == [latitude |-> "20.625", longitude |-> "74.375", elevation |-> "565.0"]
ParamMeta == [latitude |-> "20.5943", longitude |-> "74.3715", elevation |-> "600"]

\* a dict with the one key k when vs = {v}, none when vs = {}
Opt(k, vs) == IF vs = {} THEN EmptyDict ELSE k :> (CHOOSE v \in vs : TRUE)

\* the parsed body of a response
MkData(keySet, series, unitsSet, tzSet, meta) ==
    LET key == CHOOSE k \in keySet : TRUE
    IN  (IF keySet = {} THEN EmptyDict
         ELSE (key :> series) @@ Opt(key \o "_units", unitsSet))
        @@ Opt("timezone", tzSet)
        @@ [f \in meta |-> RespMeta[f]]

Ok(d) == [ok |-> TRUE, data |-> d]
Failed == [ok |-> FALSE, data |-> EmptyDict]

MetaParams(fields) == [f \in fields |-> Str(ParamMeta[f])]

Args(data_key, export, filename, location_name, p) ==
    [data_key |-> data_key, export |-> export, filename |-> filename,
     location_name |-> location_name, params |-> p]

\* calls that vary the shape of the series
ShapeInputs ==
    {[call |-> Args("hourly", FALSE, None, loc, MetaParams({"latitude", "longitude"})),
      reply |-> Ok(MkData({"hourly"}, series, un, {"Asia/Kolkata"}, {"latitude", "longitude"}))] :
        loc \in {None, "Nashik"}, series \in AllSeries, un \in UnitsChoices}

\* calls that vary the labels and the location columns
MetaInputs ==
    {[call |-> Args("hourly", FALSE, None, loc, MetaParams(pf)),
      reply |-> Ok(MkData({"hourly"}, FullSeries, un, tz, rf))] :
        loc \in {None, "", "Nashik"}, pf \in SUBSET MetaFields, rf \in SUBSET MetaFields,
        un \in UnitsChoices, tz \in TimezoneChoices}

\* the variable-list parameter: absent, a string, or a list
HourlyChoices ==
    {EmptyDict,
     [hourly |-> Str("temperature_2m")],
     [hourly |-> List(<<>>)],
     [hourly |-> List(<<"precipitation">>)],
     [hourly |-> List(<<"temperature_2m", "precipitation">>)],
     [hourly |-> List(<<"precipitation", "temperature_2m">>),
      daily |-> List(<<"sunrise", "sunset">>)]}

\* calls that vary the request, the status, the data key and the export
IOInputs ==
    {[call |-> Args(dk, ex, fn, "Pune", MetaParams({"latitude"}) @@ hp),
      reply |-> r] :
        dk \in {"hourly", "daily"}, ex \in BOOLEAN, fn \in {None, "", "out.csv"},
        hp \in HourlyChoices,
        r \in {Failed} \cup
              {Ok(MkData(ks, series, {}, {}, {"longitude"})) :
                  ks \in {{}, {"hourly"}, {"daily"}},
                  series \in {FullSeries, ShortSeries}}}

CallInputs == ShapeInputs \cup MetaInputs \cup IOInputs

\* lines 110-114
Places ==
    {[name |-> "Nashik", lat |-> "20.5943", lon |-> "74.3715"],
     [name |-> "Pune", lat |-> "18.5204", lon |-> "73.8567"],
     [name |-> "Mumbai", lat |-> "19.0760", lon |-> "72.8777"]}

\* the locations mappings: distinct names in some order
LocationMaps ==
    {m \in UNION {[1..n -> Places] : n \in 0..MaxLocs} :
        \A a, b \in 1..Len(m) : a # b => m[a].name # m[b].name}

\* the keyword parameters shared by every location
SharedChoices ==
    {EmptyDict,
     [hourly |-> List(<<"temperature_2m", "precipitation">>)],
     [hourly |-> Str("temperature_2m"), filename |-> Str("out.csv")],
     [latitude |-> Str("0.0")]}

DriverInputs ==
    {[locations |-> m, data_key |-> "hourly", export |-> ex, params |-> p] :
        m \in LocationMaps, ex \in BOOLEAN, p \in SharedChoices}

\* what the server can answer to a request of the driver
DriverReplies ==
    {Failed,
     Ok(MkData({"daily"}, FullSeries, {}, {}, MetaFields)),
     Ok(MkData({"hourly"}, ShortSeries, {}, {}, MetaFields)),
     Ok(MkData({"hourly"}, OneRowSeries, {[temperature_2m |-> "C"]}, {"Asia/Kolkata"}, MetaFields)),
     Ok(MkData({"hourly"}, FullSeries, {}, {}, {}))}

\* ------------------------------------------------------------ the machine

NoCall == Args("", FALSE, None, None, EmptyDict)
NoDriverCall == [locations |-> <<>>, data_key |-> "", export |-> FALSE, params |-> EmptyDict]

Init ==
    /\ pc = "none"
    /\ call = NoCall
    /\ params = EmptyDict
    /\ reply = Failed
    /\ data = EmptyDict
    /\ df = DataFrame(<<>>)
    /\ outcome = NoOutcome
    /\ fs = EmptyDict
    /\ requests = <<>>
    /\ dpc = "none"
    /\ dcall = NoDriverCall
    /\ idx = 0
    /\ all_dfs = <<>>
    /\ dresult = NoOutcome

\* line 5: a caller enters get_weather_data_df
CallDf ==
    /\ pc = "none" /\ dpc = "none" /\ outcome = NoOutcome
    /\ \E in \in CallInputs :
        /\ call' = in.call
        /\ params' = in.call.params
        /\ reply' = in.reply
    /\ pc' = "L20"
    /\ UNCHANGED <<data, df, outcome, fs, requests, driverVars>>

\* lines 69-83: a caller enters get_weather_data_multiple_locations
CallMultiple ==
    /\ pc = "none" /\ dpc = "none" /\ outcome = NoOutcome
    /\ \E in \in DriverInputs : dcall' = in
    /\ dpc' = "loop"
    /\ idx' = 1
    /\ all_dfs' = <<>>
    /\ UNCHANGED <<fetchVars, fs, requests, dresult>>

\* lines 85-95: the next location's call of get_weather_data_df
DriverIter ==
    /\ dpc = "loop" /\ pc = "none" /\ idx <= Len(dcall.locations)
    /\ LET clash == DOMAIN dcall.params \cap PassedByDriver
       IN  IF clash # {}
           THEN /\ Raise(TypeErrorFor(CHOOSE k \in clash : TRUE))
                /\ UNCHANGED <<call, params, reply>>
           ELSE /\ call' = BindCall(dcall, dcall.locations[idx])
                /\ params' = call'.params
                /\ \E r \in DriverReplies : reply' = r
                /\ pc' = "L20"
                /\ outcome' = NoOutcome
                /\ UNCHANGED driverVars
    /\ UNCHANGED <<data, df, fs, requests>>

\* line 96
DriverAppend ==
    /\ dpc = "loop" /\ pc = "returned"
    /\ all_dfs' = Append(all_dfs, outcome.df)
    /\ idx' = idx + 1
    /\ pc' = "none"
    /\ UNCHANGED <<call, params, reply, data, df, outcome, fs, requests,
                   dpc, dcall, dresult>>

\* line 98
DriverReturn ==
    /\ dpc = "loop" /\ pc = "none" /\ idx > Len(dcall.locations)
    /\ dpc' = "returned"
    /\ dresult' = [kind |-> "list", dfs |-> all_dfs]
    /\ UNCHANGED <<fetchVars, fs, requests, dcall, idx, all_dfs>>

Next ==
    \/ CallDf
    \/ SerializeParams
    \/ Request
    \/ CheckKey
    \/ Reshape
    \/ InsertMeta
    \/ MoveTime
    \/ InsertLocation
    \/ Export
    \/ Return
    \/ CallMultiple
    \/ DriverIter
    \/ DriverAppend
    \/ DriverReturn

Spec == Init /\ [][Next]_vars

\* ------------------------------------------------------------ properties

\* the call of get_weather_data_df is over
Finished == pc \in {"returned", "raised"}

\* the active call has transmitted its request
Requested ==
    \/ pc \in {"L27", "L30", "L49", "L57", "L61", "L64", "L67", "returned"}
    \/ pc = "raised" /\ outcome.error.type # "TypeError"

\* the request succeeded and the response holds the data key
ValidResponse == Requested /\ reply.ok /\ call.data_key \in DOMAIN reply.data

RespSeries == reply.data[call.data_key]
RespUnits == DictGet(reply.data, call.data_key \o "_units", EmptyDict)
Timestamps == OGet(RespSeries, "time", <<>>)

\* the positions of the series other than "time"
OtherSeries == {j \in 1..Len(RespSeries) : RespSeries[j][1] # "time"}

RaisedIndexError ==
    pc = "raised" /\ outcome.kind = "error" /\ outcome.error.type = "IndexError"

\* C1: for every valid response whose arrays all have the length of the
\* "time" array, get_weather_data_df returns a table of exactly
\* len(timestamps) rows, also when that length is 0.
C1_RowCount ==
    (/\ Finished
     /\ ValidResponse
     /\ OHas(RespSeries, "time")
     /\ \A j \in OtherSeries : Len(RespSeries[j][2]) = Len(Timestamps))
    => (outcome.kind = "table" /\ outcome.df.index = Len(Timestamps))

\* the labels the claims expect, written out from the response
ExpectedTimeLabel ==
    LET tz == IF "timezone" \in DOMAIN reply.data THEN reply.data["timezone"] ELSE "UTC"
    IN  IF tz \in {None, ""} THEN "time" ELSE "time (" \o tz \o ")"

ExpectedLabel(key) ==
    IF key \in DOMAIN RespUnits /\ RespUnits[key] \notin {None, ""}
    THEN key \o " (" \o RespUnits[key] \o ")"
    ELSE key

ExpectedVarLabels ==
    LET NotTime(k) == k # "time"
        keys == SelectSeq(OKeys(RespSeries), NotTime)
    IN  [j \in 1..Len(keys) |-> ExpectedLabel(keys[j])]

\* C2: the columns of a returned table are, in order: location (only when a
\* location label was given), latitude, longitude, elevation, the time
\* column, then the other variables in the order of their keys in the series.
C2_ColumnOrder ==
    pc = "returned" =>
        outcome.df.columns =
            (IF call.location_name \in {None, ""} THEN <<>> ELSE <<"location">>)
            \o <<"latitude", "longitude", "elevation", ExpectedTimeLabel>>
            \o ExpectedVarLabels

C2_Witness ==
    /\ pc = "returned"
    /\ call.location_name = "Nashik"
    /\ OKeys(RespSeries) = <<"precipitation", "time", "temperature_2m">>
    /\ outcome.df.columns[1] = "location"
    /\ outcome.df.columns[7] = "temperature_2m (C)"

\* C3: row i of a returned table holds timestamps[i] in the time column,
\* whose label carries the response's timezone ("UTC" when the response omits
\* it; the bare "time" when the timezone is null or empty), and series[key][i]
\* in the column of every other key, labelled "key (unit)" when the key has a
\* unit and with the bare key otherwise.
C3_RowValues ==
    pc = "returned" =>
        LET t == outcome.df
        IN  /\ HasColumn(t, ExpectedTimeLabel)
            /\ \A j \in OtherSeries : HasColumn(t, ExpectedLabel(RespSeries[j][1]))
            /\ \A i \in 1..Len(Timestamps) :
                /\ i <= t.index
                /\ t.cols[ExpectedTimeLabel][i] = Timestamps[i]
                /\ \A j \in OtherSeries :
                    t.cols[ExpectedLabel(RespSeries[j][1])][i] = RespSeries[j][2][i]

C3_Witness ==
    /\ pc = "returned"
    /\ "timezone" \notin DOMAIN reply.data
    /\ RespUnits = [temperature_2m |-> "", precipitation |-> "mm"]
    /\ outcome.df.index = MaxLen
    /\ outcome.df.cols["time (UTC)"][MaxLen] = Timestamps[MaxLen]
    /\ outcome.df.cols["precipitation (mm)"][MaxLen] = Val("precipitation", MaxLen)
    /\ outcome.df.cols["temperature_2m"][1] = Val("temperature_2m", 1)

\* C4: when the request succeeds and the response lacks the data key, the
\* call fails with a KeyError naming the data key; no table is returned and
\* no file is written.
C4_MissingKey ==
    (Finished /\ Requested /\ reply.ok /\ call.data_key \notin DOMAIN reply.data)
    => /\ pc = "raised"
       /\ outcome.kind = "error"
       /\ outcome.error.type = "KeyError"
       /\ outcome.error.msg = "'" \o call.data_key \o "' not found in the response"
       /\ fs = EmptyDict

C4_Witness ==
    /\ pc = "raised"
    /\ call.data_key = "daily"
    /\ "hourly" \in DOMAIN reply.data
    /\ call.export /\ call.filename = "out.csv"
    /\ outcome.error.type = "KeyError"

\* the elements separated by commas, built from the left
RECURSIVE CommaSeparated(_)
CommaSeparated(items) ==
    IF Len(items) = 0 THEN ""
    ELSE IF Len(items) = 1 THEN items[1]
    ELSE CommaSeparated(SubSeq(items, 1, Len(items) - 1)) \o "," \o items[Len(items)]

LastSent == requests[Len(requests)].params

\* C5: a list given as the hourly parameter is transmitted as one string,
\* its elements joined by commas in their order; every other parameter is
\* transmitted as it was given.
C5_VariableList ==
    Requested =>
        /\ DOMAIN LastSent = DOMAIN call.params
        /\ \A k \in DOMAIN call.params :
            IF k = "hourly" /\ call.params[k].list
            THEN /\ ~LastSent[k].list
                 /\ LastSent[k].items = <<CommaSeparated(call.params[k].items)>>
            ELSE LastSent[k] = call.params[k]

C5_Witness ==
    /\ Requested
    /\ "hourly" \in DOMAIN call.params
    /\ call.params["hourly"] = List(<<"temperature_2m", "precipitation">>)
    /\ LastSent["hourly"] = Str("temperature_2m,precipitation")
    /\ "latitude" \in DOMAIN LastSent

\* the table is what the fetch for the location, answered by r, returns
IsTableFor(t, loc, r) ==
    /\ t.columns[1] = "location"
    /\ t.index = Len(OGet(r.data["hourly"], "time", <<>>))
    /\ \A i \in 1..t.index :
        /\ t.cols["location"][i] = loc.name
        /\ t.cols["latitude"][i] = DictGet(r.data, "latitude", loc.lat)
        /\ t.cols["longitude"][i] = DictGet(r.data, "longitude", loc.lon)

\* C6: the driver fetches the locations one at a time in the mapping's order,
\* the k-th request carrying the k-th location's latitude and longitude and
\* the k-th table carrying its name; when every fetch succeeds it returns
\* exactly those tables, one per location, in that order.
C6_DriverOrder ==
    /\ dpc \in {"loop", "returned"} =>
        /\ Len(all_dfs) <= Len(dcall.locations)
        /\ Len(requests) \in {Len(all_dfs), Len(all_dfs) + 1}
        /\ \A k \in 1..Len(requests) :
            /\ requests[k].params["latitude"] = Str(dcall.locations[k].lat)
            /\ requests[k].params["longitude"] = Str(dcall.locations[k].lon)
        /\ \A k \in 1..Len(all_dfs) :
            IsTableFor(all_dfs[k], dcall.locations[k], requests[k].reply)
    /\ dpc = "returned" =>
        /\ dresult.kind = "list"
        /\ dresult.dfs = all_dfs
        /\ Len(dresult.dfs) = Len(dcall.locations)
        /\ Len(requests) = Len(dcall.locations)

C6_Witness ==
    /\ dpc = "returned"
    /\ Len(dresult.dfs) = 2
    /\ dcall.locations[1].name = "Pune" /\ dcall.locations[2].name = "Mumbai"
    /\ dresult.dfs[1].cols["location"][1] = "Pune"
    /\ dresult.dfs[2].cols["location"][1] = "Mumbai"
    /\ dresult.dfs[1].index # dresult.dfs[2].index

\* C7: a fetch that fails inside the driver fails the whole batch with that
\* error: the caller receives no tables, and nothing more is fetched.
C7_BatchAborts ==
    (dpc # "none" /\ pc = "raised") =>
        /\ dpc = "raised"
        /\ dresult.kind = "error"
        /\ dresult.error = outcome.error
        /\ "dfs" \notin DOMAIN dresult
        /\ Len(requests) <= idx
        /\ ~ENABLED Next

C7_Witness ==
    /\ dpc = "raised"
    /\ idx = 2
    /\ Len(all_dfs) = 1
    /\ Len(requests) = 2
    /\ dresult.error.type = "HTTPError"

\* C8: a returned call has written the file exactly when export was asked for
\* and a filename given, the file holding the returned table; otherwise it
\* has written nothing.
C8_Export ==
    pc = "returned" =>
        /\ outcome.kind = "table"
        /\ IF call.export /\ call.filename \notin {None, ""}
           THEN /\ DOMAIN fs = {call.filename}
                /\ fs[call.filename] = ToCsv(outcome.df)
           ELSE fs = EmptyDict

C8_Witness ==
    /\ pc = "returned"
    /\ call.export /\ call.filename = "out.csv"
    /\ Len(fs["out.csv"]) = MaxLen + 1

\* C9 as stated: whenever some array under the data key differs in length
\* from the "time" array, shorter or longer, the call fails with an IndexError.
C9_AnyMismatchFails ==
    (/\ Finished
     /\ ValidResponse
     /\ OHas(RespSeries, "time")
     /\ \E j \in OtherSeries : Len(RespSeries[j][2]) # Len(Timestamps))
    => RaisedIndexError

\* C9 as amended: whenever some array under the data key is shorter than the
\* "time" array the call fails with an IndexError; arrays longer than a
\* non-empty "time" array do not fail it, and the table has len(timestamps)
\* rows.
C9_ShorterFails ==
    (Finished /\ ValidResponse) =>
        /\ (\E j \in OtherSeries : Len(RespSeries[j][2]) < Len(Timestamps))
            => RaisedIndexError
        /\ (/\ Len(Timestamps) > 0
            /\ \A j \in OtherSeries : Len(RespSeries[j][2]) >= Len(Timestamps))
            => (outcome.kind = "table" /\ outcome.df.index = Len(Timestamps))

C9_Witness ==
    /\ RaisedIndexError
    /\ ValidResponse
    /\ Len(Timestamps) = MaxLen
    /\ \E j \in OtherSeries : Len(RespSeries[j][2]) = MaxLen - 1

\* C10: in a returned table each of latitude, longitude and elevation holds,
\* in every row, the response's value of the field when the response has the
\* field, and otherwise the request parameter of that name; each field is
\* decided on its own.
C10_MetaColumns ==
    pc = "returned" =>
        \A f \in MetaFields :
            /\ HasColumn(outcome.df, f)
            /\ \A i \in 1..outcome.df.index :
                outcome.df.cols[f][i] =
                    IF f \in DOMAIN reply.data THEN reply.data[f]
                    ELSE IF f \in DOMAIN call.params THEN call.params[f].items[1]
                    ELSE None

C10_Witness ==
    /\ pc = "returned"
    /\ outcome.df.index > 0
    /\ outcome.df.cols["latitude"][1] = RespMeta["latitude"]
    /\ "longitude" \notin DOMAIN reply.data
    /\ outcome.df.cols["longitude"][1] = ParamMeta["longitude"]
    /\ outcome.df.cols["elevation"][1] = None

====
